---- MODULE Spec2Model ----
(***************************************************************************)
(* A model of htmd/builder/amber.py: the CHARMM->AMBER lipid remapper      *)
(* (_charmmLipid2Amber), the terminal cap applier (_applyCaps) and the     *)
(* build orchestrator (build).                                             *)
(*                                                                         *)
(* A structure (Molecule) is a function from the atom positions 0..N-1 to  *)
(* atom records; positions are 0-based as in the source, because the sort  *)
(* keys of the remapper are built by adding positions to rule orders.      *)
(* Boolean numpy arrays are modelled as the set of positions that are True.*)
(***************************************************************************)
EXTENDS Integers, Sequences, FiniteSets, TLC

VARIABLES
    \* ---- _charmmLipid2Amber ----
    rpc,          \* position inside _charmmLipid2Amber
    molin,        \* the caller's structure (never mutated: the function works on a copy)
    resdict,      \* the rule table read by _readcsvdict
    mol,          \* the working copy
    neworder,     \* the sort key array
    begs,         \* boolean marker arrays, as sets of positions
    fins,
    begters,
    finters,
    idx,          \* np.argsort(neworder), the array handed to _reorderMol
    begtersIdx,   \* begters / finters after line 371-372: sorted position lists
    fintersIdx,
    emptyRaises,  \* what sequenceID does on an empty selection (not in the source tree)
    \* ---- _applyCaps ----
    cpc,          \* position inside _applyCaps: "seg", "clean", "failed", "idle"
    caps,         \* the cap configuration: a sequence of [seg, ncap, ccap]
    cseg,         \* the entry of caps the loop of line 228 is at
    capmol,       \* the structure, mutated in place
    capneworder,  \* the position-swap array of lines 268-272
    capsel,       \* the selections of lines 241-260 for the current segment
    skipped,      \* segments skipped with the warning of line 232 in this application
    hwarned,      \* segments that got the hydrogen-count warning of line 277
    capin,        \* the structure _applyCaps was first called on
    capdone,      \* the structure as each completed application left it
    \* ---- build ----
    bpc,          \* stage of the build invocation that is running
    pass,         \* 1 in the top-level invocation, 2 in the rebuild it calls
    args0,        \* the arguments of the top-level invocation
    ionize,       \* arguments of the running invocation
    execute,
    prefix,
    disulfide,
    bcaps,
    tleapFound,   \* shutil.which(tleap) finds the engine
    bmol,         \* the structure in memory
    pdb,          \* input.pdb as last written
    script,       \* tleap.in as last written: a sequence of directives
    files,        \* the output directory: file name -> "absent", "empty", "full"
    molbuilt,     \* None, or the structure read back
    engineRuns,   \* calls of the engine so far
    rebuilds,     \* IonizeRebuild transitions so far
    checked,      \* files whose size the last invocation asked for
    readfiles,    \* files the last invocation read the built structure from
    patching,     \* disulfide step of the running invocation: "pending", "skipped", "none", "bonds"
    capped,       \* the running invocation entered the capping loop for a segment
    berr,         \* the error that ended the build, or "none"
    returned      \* what the top-level invocation returned

rvars == <<rpc, molin, resdict, mol, neworder, begs, fins, begters, finters,
           idx, begtersIdx, fintersIdx, emptyRaises>>

cvars == <<cpc, caps, cseg, capmol, capneworder, capsel, skipped, hwarned, capin, capdone>>

bvars == <<bpc, pass, args0, ionize, execute, prefix, disulfide, bcaps, tleapFound,
           bmol, pdb, script, files, molbuilt, engineRuns, rebuilds, checked,
           readfiles, patching, capped, berr, returned>>

vars == <<rvars, cvars, bvars>>

-----------------------------------------------------------------------------
(* Bounds of the model *)

MaxAtoms == 4       \* longest input structure of the remapper
MaxCapAtoms == 6    \* most atoms of the capped segment in an input of the cap applier
MaxApplies == 2     \* applications of _applyCaps to one structure
MaxPasses == 3      \* build invocations (the top-level one and its rebuilds) explored
TagBase == 100      \* input beta of atom i is TagBase + i: a tag that follows the atom

(* Program constant: the segment label ceiling of line 374 *)
MaxSegments == 999

-----------------------------------------------------------------------------
(* Generic helpers *)

Range(f) == {f[x] : x \in DOMAIN f}

NumAtoms(m) == Cardinality(DOMAIN m)

MinOf(S) == CHOOSE x \in S : \A y \in S : x <= y

MaxOf(S) == CHOOSE x \in S : \A y \in S : x >= y

\* np.where(mask)[0]: the True positions in ascending order (a 1-based sequence)
RECURSIVE Where(_)
Where(S) ==
    IF S = {} THEN <<>>
    ELSE LET m == MinOf(S) IN <<m>> \o Where(S \ {m})

\* the structures of n atoms over a set of atom records, tagged by position
Tagged(m) == [i \in DOMAIN m |-> [m[i] EXCEPT !.beta = TagBase + i]]

\* a permutation array: every position 0..N-1 exactly once
IsBijection(order, n) ==
    /\ DOMAIN order = 0 .. (n - 1)
    /\ Range(order) = 0 .. (n - 1)

-----------------------------------------------------------------------------
(* htmd.molecule.util.sequenceID: a counter that starts at 0 and grows by  *)
(* one at every position whose value differs from the previous position's. *)
(* field is a function over 0..n-1 (values may be tuples).                 *)

sequenceID(field) ==
    [i \in DOMAIN field |->
        Cardinality({j \in 1 .. i : field[j] # field[j - 1]})]

-----------------------------------------------------------------------------
(* _reorderMol: every per-atom array becomes array[order] (numpy gather)   *)

reorderMol(m, order) == [k \in DOMAIN order |-> m[order[k]]]

-----------------------------------------------------------------------------
(* Rule tables.  A table is the dict built by _readcsvdict, in insertion   *)
(* order: a sequence of <<residue name, atom map>>, an atom map being a    *)
(* sequence of <<atom name, Rule>>.                                        *)

Rule(rr, ra, o, n, t) ==
    [replaceresname |-> rr, replaceatom |-> ra, order |-> o, natoms |-> n, ter |-> t]

\* the remap-ordering scenario: A1 first (no TER), A2 last (TER)
TableScenario ==
    << [res |-> "X",
        atommap |-> << [atom |-> "A2", rule |-> Rule("XM", "A2M", 1, 2, TRUE)],
                       [atom |-> "A1", rule |-> Rule("XM", "A1M", 0, 2, FALSE)] >>] >>

\* a lipid split into two AMBER residues, TER at both ends (as POPC -> PA/PC/OL),
\* and a one-atom residue with no TER
TableTer ==
    << [res |-> "X",
        atommap |-> << [atom |-> "A1", rule |-> Rule("PA", "C1", 0, 2, TRUE)],
                       [atom |-> "A2", rule |-> Rule("PC", "C2", 1, 2, TRUE)] >>],
       [res |-> "W",
        atommap |-> << [atom |-> "A1", rule |-> Rule("WM", "O1", 0, 1, FALSE)] >>] >>

RuleTables == {TableScenario, TableTer}

\* rule_for(residue name, atom name): the set of rules of the table for that pair
RulesFor(table, res, atom) ==
    {table[r].atommap[a].rule :
        <<r, a>> \in {<<r2, a2>> \in (DOMAIN table) \X (1 .. 4) :
                        /\ a2 \in DOMAIN table[r2].atommap
                        /\ table[r2].res = res
                        /\ table[r2].atommap[a2].atom = atom}}

HasRule(table, at) == RulesFor(table, at.resname, at.name) # {}

-----------------------------------------------------------------------------
(* _charmmLipid2Amber, lines 331-355: the renaming loop                    *)

\* one iteration of "for atom in atommap.keys()" (lines 339-355)
ApplyRule(st, molresidx, names, atom, rule) ==
    LET molatomidx == {i \in molresidx : names[i] = atom}
        first == rule.order = 0
        last == rule.order = rule.natoms - 1
    IN  [mol |-> [i \in DOMAIN st.mol |->
                    IF i \in molatomidx
                    THEN [st.mol[i] EXCEPT !.resname = rule.replaceresname,
                                           !.name = rule.replaceatom]
                    ELSE st.mol[i]],
         neworder |-> [i \in DOMAIN st.neworder |->
                    IF i \in molatomidx THEN rule.order ELSE st.neworder[i]],
         begs |-> IF first THEN st.begs \cup molatomidx ELSE st.begs,
         fins |-> IF last THEN st.fins \cup molatomidx ELSE st.fins,
         begters |-> IF first /\ rule.ter THEN st.begters \cup molatomidx ELSE st.begters,
         finters |-> IF last /\ rule.ter THEN st.finters \cup molatomidx ELSE st.finters]

RECURSIVE AtomLoop(_, _, _, _, _)
AtomLoop(st, molresidx, names, atommap, k) ==
    IF k > Len(atommap) THEN st
    ELSE AtomLoop(ApplyRule(st, molresidx, names, atommap[k].atom, atommap[k].rule),
                  molresidx, names, atommap, k + 1)

\* "for res in resdict.keys()" (lines 331-337): the mask and the name copy are
\* taken from the structure as the earlier residues of the table left it
RECURSIVE ResLoop(_, _, _)
ResLoop(st, table, r) ==
    IF r > Len(table) THEN st
    ELSE LET molresidx == {i \in DOMAIN st.mol : st.mol[i].resname = table[r].res}
             names == [i \in DOMAIN st.mol |-> st.mol[i].name]
         IN  IF molresidx = {} THEN ResLoop(st, table, r + 1)
             ELSE ResLoop(AtomLoop(st, molresidx, names, table[r].atommap, 1), table, r + 1)

\* line 330: the grouping tag
GroupTag(m) == sequenceID([i \in DOMAIN m |-> m[i].resid])

\* lines 319-355
RenameState(m, table) ==
    LET tag == GroupTag(m)
        start == [mol |-> [i \in DOMAIN m |-> [m[i] EXCEPT !.beta = tag[i]]],
                  neworder |-> [i \in DOMAIN m |-> i],
                  begs |-> {}, fins |-> {}, begters |-> {}, finters |-> {}]
    IN  ResLoop(start, table, 1)

-----------------------------------------------------------------------------
(* lines 357-366: every group that holds a position-0 atom has its keys    *)
(* shifted by the group's first position                                   *)

RECURSIVE SumOf(_)
SumOf(S) == IF S = {} THEN 0 ELSE LET x == CHOOSE y \in S : TRUE IN x + SumOf(S \ {x})

OffsetKeys(m, keys, bg) ==
    LET betas == {m[i].beta : i \in bg}
        residuebegs(b) == MinOf({i \in DOMAIN m : m[i].beta = b})
        residuefins(b) == MaxOf({i \in DOMAIN m : m[i].beta = b})
    IN  [i \in DOMAIN keys |->
            keys[i] + SumOf({residuebegs(b) :
                               b \in {c \in betas : /\ residuebegs(c) <= i
                                                    /\ i < residuefins(c) + 1}})]

\* a sort that ranks every key by the number of smaller keys, without breaking ties
ArgSortNoTieBreak(keys) ==
    {[k \in DOMAIN keys |-> Cardinality({j \in DOMAIN keys : keys[j] < keys[k]})]}

(* line 367, np.argsort: the position arrays that list the keys in         *)
(* ascending order.  numpy's default sort is not stable, so equal keys may *)
(* come out in any order: every such array is a possible result.           *)

RECURSIVE SortedFrom(_, _)
SortedFrom(keys, S) ==
    IF S = {} THEN {<<>>}
    ELSE LET least == {i \in S : \A j \in S : keys[i] <= keys[j]}
         IN  UNION {{<<i>> \o t : t \in SortedFrom(keys, S \ {i})} : i \in least}

ArgSort(keys) ==
    {[k \in DOMAIN keys |-> s[k + 1]] : s \in SortedFrom(keys, DOMAIN keys)}

\* the grouping tag left in the scratch field
KeepTag(m, backup) == m

\* line 368: mol.beta = betabackup
RestoreBeta(m, backup) == [i \in DOMAIN m |-> [m[i] EXCEPT !.beta = backup[i].beta]]

-----------------------------------------------------------------------------
(* lines 374-381: the resegmenter                                          *)

SegLabel(i) == "L" \o ToString(i + 1)

\* one iteration of the loop of line 377; st is [mol, err]
Relabel(st, bt, ft, i, raises) ==
    IF st.err # "none" THEN st
    ELSE IF i + 1 > Len(ft) THEN [st EXCEPT !.err = "IndexError"]
    ELSE LET map == {k \in DOMAIN st.mol : bt[i + 1] <= k /\ k < ft[i + 1] + 1}
             sel == Where(map)
             seq == sequenceID([j \in 0 .. (Len(sel) - 1) |-> st.mol[sel[j + 1]].resname])
             rank(k) == CHOOSE j \in 0 .. (Len(sel) - 1) : sel[j + 1] = k
         IN  IF map = {}
             THEN (IF raises THEN [st EXCEPT !.err = "IndexError"] ELSE st)
             ELSE [st EXCEPT !.mol = [k \in DOMAIN st.mol |->
                        IF k \in map
                        THEN [st.mol[k] EXCEPT !.resid = seq[rank(k)], !.segid = SegLabel(i)]
                        ELSE st.mol[k]]]

\* a run whose end marker lies before its begin marker selects no atom
HasEmptyRun(bt, ft) ==
    \E i \in 1 .. Len(bt) : i <= Len(ft) /\ ft[i] < bt[i]

RECURSIVE RelabelLoop(_, _, _, _, _)
RelabelLoop(st, bt, ft, i, raises) ==
    IF i >= Len(bt) THEN st
    ELSE RelabelLoop(Relabel(st, bt, ft, i, raises), bt, ft, i + 1, raises)

Resegmented(m, bt, ft, raises) ==
    IF Len(bt) > MaxSegments THEN [mol |-> m, err |-> "CapacityError"]
    ELSE RelabelLoop([mol |-> m, err |-> "none"], bt, ft, 0, raises)

-----------------------------------------------------------------------------
(* The remapper as a state machine *)

\* build is not running
BIdle ==
    /\ bpc = "idle" /\ pass = 0 /\ args0 = <<>> /\ ionize = FALSE /\ execute = FALSE
    /\ prefix = "" /\ disulfide = <<>> /\ bcaps = "None" /\ tleapFound = FALSE
    /\ bmol = <<>> /\ pdb = <<>> /\ script = <<>> /\ files = <<>>
    /\ molbuilt = <<>> /\ engineRuns = 0 /\ rebuilds = 0 /\ checked = {}
    /\ readfiles = {} /\ patching = "pending" /\ capped = FALSE /\ berr = "none"
    /\ returned = <<>>

\* the cap applier is not running
CIdle ==
    /\ cpc = "idle" /\ caps = <<>> /\ cseg = 0 /\ capmol = <<>>
    /\ capneworder = <<>> /\ capsel = <<>> /\ skipped = {} /\ hwarned = {}
    /\ capin = <<>> /\ capdone = <<>>

\* residue ids of the inputs: the code only compares neighbouring ids
Resids == {1, 2}

\* input atoms: ruled (X:A1, X:A2), unruled atom of a ruled residue (X:B),
\* atom of an unruled residue (W:A1)
RAtoms ==
    {[name |-> k[1], resname |-> k[2], resid |-> r, insertion |-> "", segid |-> "S",
      beta |-> 0] :
        k \in {<<"A1", "X">>, <<"A2", "X">>, <<"B", "X">>, <<"A1", "W">>},
        r \in Resids}

RInit ==
    /\ rpc = "rename"
    /\ \E n \in 1 .. MaxAtoms : \E m \in [0 .. (n - 1) -> RAtoms] : molin = Tagged(m)
    /\ resdict \in RuleTables
    /\ mol = molin
    /\ neworder = <<>>
    /\ begs = {} /\ fins = {} /\ begters = {} /\ finters = {}
    /\ idx = <<>>
    /\ begtersIdx = <<>> /\ fintersIdx = <<>>
    /\ emptyRaises = FALSE
    /\ CIdle
    /\ BIdle

\* lines 319-355
Rename ==
    /\ rpc = "rename"
    /\ LET st == RenameState(molin, resdict)
       IN  /\ mol' = st.mol
           /\ neworder' = st.neworder
           /\ begs' = st.begs /\ fins' = st.fins
           /\ begters' = st.begters /\ finters' = st.finters
    /\ rpc' = "reorder"
    /\ UNCHANGED <<molin, resdict, idx, begtersIdx, fintersIdx, emptyRaises>>
    /\ UNCHANGED <<cvars, bvars>>

\* lines 357-372
Reorder ==
    /\ rpc = "reorder"
    /\ LET keys == OffsetKeys(mol, neworder, begs)
       IN  /\ neworder' = keys
           /\ \E order \in ArgSort(keys) :
                /\ idx' = order
                /\ mol' = reorderMol(RestoreBeta(mol, molin), order)
                /\ begtersIdx' = Where({k \in DOMAIN order : order[k] \in begters})
                /\ fintersIdx' = Where({k \in DOMAIN order : order[k] \in finters})
    /\ rpc' = "reseg"
    /\ UNCHANGED <<molin, resdict, begs, fins, begters, finters, emptyRaises>>
    /\ UNCHANGED <<cvars, bvars>>

\* lines 374-383
Resegment ==
    /\ rpc = "reseg"
    /\ \E raises \in (IF HasEmptyRun(begtersIdx, fintersIdx) THEN BOOLEAN ELSE {FALSE}) :
        LET out == Resegmented(mol, begtersIdx, fintersIdx, raises)
        IN  /\ emptyRaises' = raises
            /\ mol' = out.mol
            /\ rpc' = IF out.err = "none" THEN "done" ELSE out.err
    /\ UNCHANGED <<molin, resdict, neworder, begs, fins, begters, finters,
                   idx, begtersIdx, fintersIdx>>
    /\ UNCHANGED <<cvars, bvars>>

RNext == Rename \/ Reorder \/ Resegment

SpecRemap == RInit /\ [][RNext]_vars

\* residue instances that share the residue id 1 and differ in insertion code
\* or in segment id
Instances == {<<"", "S">>, <<"A", "S">>, <<"", "T">>}

RSegAtoms ==
    {[name |-> k[1], resname |-> k[2], resid |-> 1, insertion |-> r[1], segid |-> r[2],
      beta |-> 0] :
        k \in {<<"A1", "X">>, <<"A2", "X">>, <<"B", "X">>, <<"A1", "W">>},
        r \in Instances}

\* the remapper on structures whose residues share a residue id
RSegInit ==
    /\ rpc = "rename"
    /\ \E n \in 1 .. MaxAtoms : \E m \in [0 .. (n - 1) -> RSegAtoms] : molin = Tagged(m)
    /\ resdict \in RuleTables
    /\ mol = molin
    /\ neworder = <<>>
    /\ begs = {} /\ fins = {} /\ begters = {} /\ finters = {}
    /\ idx = <<>>
    /\ begtersIdx = <<>> /\ fintersIdx = <<>>
    /\ emptyRaises = FALSE
    /\ CIdle
    /\ BIdle

SpecRemapSeg == RSegInit /\ [][RNext]_vars

-----------------------------------------------------------------------------
(* _applyCaps, lines 227-281 *)

\* Molecule.remove: the selected atoms go, the arrays are compacted
Remove(m, torem) ==
    LET keep == Where(DOMAIN m \ torem)
    IN  [k \in 0 .. (Len(keep) - 1) |-> m[keep[k + 1]]]

\* mol.atomselect('segid <seg> and resid <res> and name <names>')
SelName(m, seg, res, names) ==
    {i \in DOMAIN m : m[i].segid = seg /\ m[i].resid = res /\ m[i].name \in names}

\* lines 229-231: caps are detected by the residue names ACE and NME
CapsDetected(m, cap) ==
    /\ \E i \in DOMAIN m : m[i].segid = cap.seg /\ m[i].resname = "ACE"
    /\ \E i \in DOMAIN m : m[i].segid = cap.seg /\ m[i].resname = "NME"

\* lines 245-260: the single atom with one of the names, else the single atom
\* with the fallback name, else nothing (the AssertionError)
Candidate(m, seg, res, names, fallback) ==
    LET prim == SelName(m, seg, res, names)
        fb == SelName(m, seg, res, {fallback})
    IN  IF Cardinality(prim) = 1 THEN prim
        ELSE IF Cardinality(fb) = 1 THEN fb
        ELSE {}

\* lines 268-272: four assignments into arange(N), in this order
SwapOrder(n, nterm, segmentfirst, cterm, segmentlast) ==
    LET o0 == [i \in 0 .. (n - 1) |-> i]
        o1 == [o0 EXCEPT ![nterm] = segmentfirst]
        o2 == [o1 EXCEPT ![segmentfirst] = nterm]
        o3 == [o2 EXCEPT ![cterm] = segmentlast]
        o4 == [o3 EXCEPT ![segmentlast] = cterm]
    IN  o4

\* lines 261-266: the two candidates become the cap residues
Relabelled(m, cap, nterm, cterm, minres, maxres) ==
    [i \in DOMAIN m |->
        IF i = cterm
        THEN [m[i] EXCEPT !.resname = cap.ccap, !.name = "N", !.resid = maxres + 1]
        ELSE IF i = nterm
        THEN [m[i] EXCEPT !.resname = cap.ncap, !.name = "C", !.resid = minres - 1]
        ELSE m[i]]

\* lines 229-273 for one segment of the configuration
CapSegment ==
    /\ cpc = "seg"
    /\ cseg <= Len(caps)
    /\ LET cap == caps[cseg]
           segment == {i \in DOMAIN capmol : capmol[i].segid = cap.seg}
       IN  IF CapsDetected(capmol, cap)
           THEN /\ skipped' = skipped \cup {cap.seg}
                /\ cseg' = cseg + 1
                /\ UNCHANGED <<cpc, capmol, capneworder, capsel>>
           ELSE IF segment = {}
           THEN /\ cpc' = "IndexError"
                /\ UNCHANGED <<cseg, capmol, capneworder, capsel, skipped>>
           ELSE LET segmentfirst == MinOf(segment)
                    segmentlast == MaxOf(segment)
                    resids == {capmol[i].resid : i \in segment}
                    minres == MinOf(resids)
                    maxres == MaxOf(resids)
                    ntermAtomToMod == Candidate(capmol, cap.seg, minres, {"H2", "HT2"}, "H")
                    ctermAtomToMod == Candidate(capmol, cap.seg, maxres, {"OXT", "OT1"}, "O")
                IN  IF ntermAtomToMod = {} \/ ctermAtomToMod = {}
                    THEN /\ cpc' = "AssertionError"
                         /\ UNCHANGED <<cseg, capmol, capneworder, capsel, skipped>>
                    ELSE LET nterm == CHOOSE i \in ntermAtomToMod : TRUE
                             cterm == CHOOSE i \in ctermAtomToMod : TRUE
                             order == SwapOrder(NumAtoms(capmol), nterm, segmentfirst,
                                                cterm, segmentlast)
                         IN  /\ capneworder' = order
                             /\ capmol' = reorderMol(
                                    Relabelled(capmol, cap, nterm, cterm, minres, maxres),
                                    order)
                             /\ capsel' = [seg |-> cap.seg, nterm |-> nterm, cterm |-> cterm,
                                           segmentfirst |-> segmentfirst,
                                           segmentlast |-> segmentlast,
                                           minres |-> minres, maxres |-> maxres,
                                           before |-> capmol]
                             /\ cpc' = "clean"
                             /\ UNCHANGED <<cseg, skipped>>
    /\ UNCHANGED <<caps, hwarned, capin, capdone>>
    /\ UNCHANGED <<rvars, bvars>>

\* lines 275-281: the redundant hydrogens of the former N-terminal residue go
CapClean ==
    /\ cpc = "clean"
    /\ LET torem == SelName(capmol, capsel.seg, capsel.minres, {"H1", "H3", "HT1", "HT3"})
       IN  /\ hwarned' = IF Cardinality(torem) # 2 THEN hwarned \cup {capsel.seg} ELSE hwarned
           /\ capmol' = Remove(capmol, torem)
    /\ cseg' = cseg + 1
    /\ cpc' = "seg"
    /\ UNCHANGED <<caps, capneworder, capsel, skipped, capin, capdone>>
    /\ UNCHANGED <<rvars, bvars>>

\* the loop of line 228 is over: _applyCaps returns, and may be called again
CapReturn ==
    /\ cpc = "seg"
    /\ cseg > Len(caps)
    /\ capdone' = Append(capdone, capmol)
    /\ IF Len(capdone) + 1 < MaxApplies
       THEN /\ cpc' = "seg" /\ cseg' = 1 /\ skipped' = {} /\ hwarned' = {}
       ELSE /\ cpc' = "done" /\ UNCHANGED <<cseg, skipped, hwarned>>
    /\ UNCHANGED <<caps, capmol, capneworder, capsel, capin>>
    /\ UNCHANGED <<rvars, bvars>>

\* the remapper is not running
RIdle ==
    /\ rpc = "idle" /\ molin = <<>> /\ resdict = <<>> /\ mol = <<>> /\ neworder = <<>>
    /\ begs = {} /\ fins = {} /\ begters = {} /\ finters = {}
    /\ idx = <<>> /\ begtersIdx = <<>> /\ fintersIdx = <<>> /\ emptyRaises = FALSE

\* input atoms of the capped segment P: the terminal hydrogens, the terminal
\* oxygen, the fallback atoms H and O and the backbone atom CA, in residue 1,
\* in residue 2, or both
CapAtom(n, r) == [name |-> n, resname |-> "ALA", resid |-> r, segid |-> "P", beta |-> 0]

CapPool ==
    {CapAtom("H2", 1), CapAtom("H1", 1), CapAtom("H3", 1), CapAtom("H", 1),
     CapAtom("CA", 1), CapAtom("OXT", 1),
     CapAtom("OXT", 2), CapAtom("O", 2), CapAtom("CA", 2)}

\* an input segment: distinct atoms, every residue with its backbone atom
CapSegmentInputs(n) ==
    {m \in [0 .. (n - 1) -> CapPool] :
        /\ \A i, j \in 0 .. (n - 1) : m[i] = m[j] => i = j
        /\ \A i \in 0 .. (n - 1) : \E j \in 0 .. (n - 1) :
              m[j].resid = m[i].resid /\ m[j].name = "CA"}

PadAtom(seg) == [name |-> "CA", resname |-> "LIG", resid |-> 1, segid |-> seg, beta |-> 0]

\* the segment alone, or between an atom of segment Q and an atom of segment R
Padded(m, pad) ==
    IF pad
    THEN [i \in 0 .. (NumAtoms(m) + 1) |->
            IF i = 0 THEN PadAtom("Q")
            ELSE IF i = NumAtoms(m) + 1 THEN PadAtom("R")
            ELSE m[i - 1]]
    ELSE m

CapConfigs ==
    { << [seg |-> "P", ncap |-> "ACE", ccap |-> "NME"] >>,
      << [seg |-> "P", ncap |-> "ACE", ccap |-> "NHE"] >> }

CInit ==
    /\ RIdle
    /\ BIdle
    /\ cpc = "seg"
    /\ cseg = 1
    /\ caps \in CapConfigs
    /\ \E n \in 1 .. MaxCapAtoms : \E m \in CapSegmentInputs(n) : \E pad \in BOOLEAN :
          capin = Tagged(Padded(m, pad))
    /\ capmol = capin
    /\ capneworder = <<>> /\ capsel = <<>> /\ skipped = {} /\ hwarned = {}
    /\ capdone = <<>>

CNext == CapSegment \/ CapClean \/ CapReturn

SpecCaps == CInit /\ [][CNext]_vars

-----------------------------------------------------------------------------
(* build, lines 50-224 *)

\* a file of the output directory: '<stem>.<ext>'
FileName(stem, ext) == [stem |-> stem, ext |-> ext]

Prefixes == {"structure", "system"}

OutFiles ==
    {FileName(st, e) : st \in Prefixes, e \in {"crd", "prmtop"}}
        \cup {FileName("structure", "noions.crd"), FileName("structure", "noions.prmtop"),
              FileName("structure", "pdb")}

\* _cleanOutDir, lines 295-301: glob 'structure.*' (the log files are not modelled)
cleanOutDir(fs) == [f \in DOMAIN fs |-> IF f.stem = "structure" THEN "absent" ELSE fs[f]]

\* no structure: Python's None
None == [built |-> FALSE, ions |-> FALSE, resname |-> <<>>]

\* the structure in memory: the two residues of a candidate disulfide pair, and
\* whether ions have been placed
Structure(resname, ions) == [built |-> TRUE, ions |-> ions, resname |-> resname]

\* the disulfide argument: None, or a list of pairs
NoDisulfide == [given |-> FALSE, pairs |-> <<>>]

DisulfideList(pairs) == [given |-> TRUE, pairs |-> pairs]

Pair12 == [resid1 |-> 1, resid2 |-> 2]

\* lines 180-181: the save directive
SaveDirective(pfx) == <<"saveamberparm", FileName(pfx, "prmtop"), FileName(pfx, "crd")>>

\* the files the engine is told to save
SavedFiles(scr) ==
    UNION {{scr[i][2], scr[i][3]} : i \in {j \in DOMAIN scr : scr[j][1] = "saveamberparm"}}

\* line 207: the files whose size decides whether the build succeeded
CheckedCrd(pfx) == FileName("structure", "crd")

CheckedPrmtop(pfx) == FileName("structure", "prmtop")

\* a rebuild that hands the caller's ionize flag on
RebuildIonizeKept(ion) == ion

\* lines 221-222: the arguments of the rebuild
RebuildIonize(ion) == FALSE

RebuildCaps(c) == "empty"

BFail(e) ==
    /\ bpc' = "Failed"
    /\ berr' = e
    /\ returned' = None

\* lines 100-114
BSetup ==
    /\ bpc = "Init"
    /\ IF ~tleapFound
       THEN /\ BFail("NameError")
            /\ UNCHANGED <<files, bcaps>>
       ELSE /\ files' = cleanOutDir(files)
            /\ bcaps' = IF bcaps = "None" THEN "default" ELSE bcaps
            /\ bpc' = "Validate"
            /\ UNCHANGED <<berr, returned>>
    /\ UNCHANGED <<pass, args0, ionize, execute, prefix, disulfide, tleapFound, bmol, pdb,
                   script, molbuilt, engineRuns, rebuilds, checked, readfiles, patching,
                   capped>>
    /\ UNCHANGED <<rvars, cvars>>

\* lines 116-117: _missingSegID and _checkMixedSegment accept the structure or raise
BValidate ==
    /\ bpc = "Validate"
    /\ \E ok \in BOOLEAN :
          IF ok THEN bpc' = "ConvertNaming" /\ UNCHANGED <<berr, returned>>
          ELSE BFail("InputError")
    /\ UNCHANGED <<pass, args0, ionize, execute, prefix, disulfide, bcaps, tleapFound, bmol,
                   pdb, script, files, molbuilt, engineRuns, rebuilds, checked, readfiles,
                   patching, capped>>
    /\ UNCHANGED <<rvars, cvars>>

\* lines 119-120: _charmmLipid2Amber returns or raises
BConvert ==
    /\ bpc = "ConvertNaming"
    /\ \E r \in {"done", "CapacityError", "IndexError"} :
          IF r = "done" THEN bpc' = "ApplyCaps" /\ UNCHANGED <<berr, returned>>
          ELSE BFail(r)
    /\ UNCHANGED <<pass, args0, ionize, execute, prefix, disulfide, bcaps, tleapFound, bmol,
                   pdb, script, files, molbuilt, engineRuns, rebuilds, checked, readfiles,
                   patching, capped>>
    /\ UNCHANGED <<rvars, cvars>>

\* line 123: _applyCaps loops over the segments of caps; the default caps hold
\* the protein segments, if any
BApplyCaps ==
    /\ bpc = "ApplyCaps"
    /\ \E nseg \in (IF bcaps = "empty" THEN {0} ELSE IF bcaps = "user" THEN {1} ELSE {0, 1}) :
          IF nseg = 0
          THEN bpc' = "WriteScript" /\ UNCHANGED <<capped, berr, returned>>
          ELSE /\ capped' = TRUE
               /\ \E r \in {"done", "AssertionError"} :
                     IF r = "done" THEN bpc' = "WriteScript" /\ UNCHANGED <<berr, returned>>
                     ELSE BFail(r)
    /\ UNCHANGED <<pass, args0, ionize, execute, prefix, disulfide, bcaps, tleapFound, bmol,
                   pdb, script, files, molbuilt, engineRuns, rebuilds, checked, readfiles,
                   patching>>
    /\ UNCHANGED <<rvars, cvars>>

\* lines 162-178: the bond directives and the renaming of the bonded residues
BondDirectives(ds) == [i \in DOMAIN ds |-> <<"bond", ds[i].resid1, ds[i].resid2>>]

Renamed(resname, ds) ==
    [r \in DOMAIN resname |->
        IF \E i \in DOMAIN ds : r \in {ds[i].resid1, ds[i].resid2} THEN "CYX" ELSE resname[r]]

\* line 163: the bonds are detected when none are given and ionization is off
Detects(ds, ion) == ~ds.given /\ ~ion

\* line 167: bonds are only made when ionization is off
Patches(ds, ion) == ~ion /\ Len(ds.pairs) # 0

\* lines 125-183: tleap.in and input.pdb are written
BWriteScript ==
    /\ bpc = "WriteScript"
    /\ \E wrote \in BOOLEAN :
          IF ~wrote
          THEN /\ BFail("NameError")
               /\ UNCHANGED <<pdb, script, disulfide, bmol, patching>>
          ELSE \E found \in (IF Detects(disulfide, ionize) THEN {<<>>, <<Pair12>>} ELSE {<<>>}) :
               LET ds == IF Detects(disulfide, ionize) THEN DisulfideList(found) ELSE disulfide
                   patch == Patches(ds, ionize)
                   head == << <<"source", "leaprc.ff14SB">>,
                              <<"loadamberparams", "frcmod.ionsjc_tip3p">>,
                              <<"loadpdb", "input.pdb">> >>
               IN  /\ pdb' = bmol
                   /\ disulfide' = ds
                   /\ bmol' = IF patch THEN [bmol EXCEPT !.resname = Renamed(@, ds.pairs)]
                              ELSE bmol
                   /\ script' = head \o (IF patch THEN BondDirectives(ds.pairs) ELSE <<>>)
                                     \o << SaveDirective(prefix), <<"quit">> >>
                   /\ patching' = IF ionize THEN "skipped"
                                  ELSE IF patch THEN "bonds" ELSE "none"
                   /\ bpc' = "Execute"
                   /\ UNCHANGED <<berr, returned>>
    /\ UNCHANGED <<pass, args0, ionize, execute, prefix, bcaps, tleapFound, files, molbuilt,
                   engineRuns, rebuilds, checked, readfiles, capped>>
    /\ UNCHANGED <<rvars, cvars>>

\* lines 207-211 on the directory as the engine left it
SizeCheck(fs, crd, prmtop) ==
    IF fs[crd] = "absent" THEN [err |-> "OSError", asked |-> {crd}]
    ELSE IF fs[crd] = "empty" THEN [err |-> "NameError", asked |-> {crd}]
    ELSE IF fs[prmtop] = "absent" THEN [err |-> "OSError", asked |-> {crd, prmtop}]
    ELSE IF fs[prmtop] = "empty" THEN [err |-> "NameError", asked |-> {crd, prmtop}]
    ELSE [err |-> "none", asked |-> {crd, prmtop}]

\* lines 185-211: the engine runs on tleap.in and leaves each file it was told
\* to save full, empty, or unwritten; or the call itself raises
BExecute ==
    /\ bpc = "Execute"
    /\ IF ~execute
       THEN /\ molbuilt' = None
            /\ bpc' = "Return"
            /\ UNCHANGED <<files, engineRuns, checked, readfiles, berr, returned>>
       ELSE /\ engineRuns' = engineRuns + 1
            /\ \E crashed \in BOOLEAN :
                 IF crashed
                 THEN /\ BFail("NameError")
                      /\ UNCHANGED <<files, checked, readfiles, molbuilt>>
                 ELSE \E left \in [SavedFiles(script) -> {"unwritten", "empty", "full"}] :
                      LET fs == [f \in DOMAIN files |->
                                    IF f \in SavedFiles(script) /\ left[f] # "unwritten"
                                    THEN left[f] ELSE files[f]]
                          chk == SizeCheck(fs, CheckedCrd(prefix), CheckedPrmtop(prefix))
                      IN  /\ files' = fs
                          /\ checked' = chk.asked
                          /\ IF chk.err # "none"
                             THEN BFail(chk.err) /\ UNCHANGED <<readfiles, molbuilt>>
                             ELSE /\ readfiles' = chk.asked
                                  /\ molbuilt' = Structure(pdb.resname, pdb.ions)
                                  /\ bpc' = IF ionize THEN "IonizeRebuild" ELSE "Return"
                                  /\ UNCHANGED <<berr, returned>>
    /\ UNCHANGED <<pass, args0, ionize, prefix, execute, disulfide, bcaps, tleapFound, bmol,
                   pdb, script, rebuilds, patching, capped>>
    /\ UNCHANGED <<rvars, cvars>>

\* lines 213-222: the outputs are set aside, ions are placed in the structure in
\* memory and build calls itself on the new structure
BIonizeRebuild ==
    /\ bpc = "IonizeRebuild"
    /\ pass < MaxPasses
    /\ files' = [f \in DOMAIN files |->
                    IF f = FileName("structure", "noions.crd")
                    THEN files[FileName("structure", "crd")]
                    ELSE IF f = FileName("structure", "noions.prmtop")
                    THEN files[FileName("structure", "prmtop")]
                    ELSE IF f \in {FileName("structure", "crd"), FileName("structure", "prmtop")}
                    THEN "absent"
                    ELSE files[f]]
    /\ bmol' = [bmol EXCEPT !.ions = TRUE]
    /\ bcaps' = RebuildCaps(bcaps)
    /\ ionize' = RebuildIonize(ionize)
    /\ pass' = pass + 1
    /\ rebuilds' = rebuilds + 1
    /\ bpc' = "Init"
    /\ molbuilt' = None
    /\ checked' = {} /\ readfiles' = {} /\ patching' = "pending" /\ capped' = FALSE
    /\ UNCHANGED <<args0, execute, prefix, disulfide, tleapFound, pdb, script, engineRuns,
                   berr, returned>>
    /\ UNCHANGED <<rvars, cvars>>

\* lines 223-224: molbuilt.write, then the structure is returned to the caller,
\* through the first invocation when this is the rebuild
BReturn ==
    /\ bpc = "Return"
    /\ IF ~molbuilt.built
       THEN BFail("AttributeError") /\ UNCHANGED files
       ELSE /\ files' = [files EXCEPT ![FileName("structure", "pdb")] = "full"]
            /\ returned' = molbuilt
            /\ bpc' = "Finalize"
            /\ UNCHANGED berr
    /\ UNCHANGED <<pass, args0, ionize, execute, prefix, disulfide, bcaps, tleapFound, bmol,
                   pdb, script, molbuilt, engineRuns, rebuilds, checked, readfiles, patching,
                   capped>>
    /\ UNCHANGED <<rvars, cvars>>

\* the output directory before the build: empty, or holding the outputs of an
\* earlier build under one of the prefixes
Directories ==
    {[f \in OutFiles |-> IF f.stem = st /\ f.ext \in {"crd", "prmtop"} THEN "full" ELSE "absent"] :
        st \in Prefixes \cup {"none"}}

BInit ==
    /\ RIdle
    /\ CIdle
    /\ bpc = "Init"
    /\ pass = 1
    /\ ionize \in BOOLEAN
    /\ execute \in BOOLEAN
    /\ prefix \in Prefixes
    /\ disulfide \in {NoDisulfide, DisulfideList(<<>>), DisulfideList(<<Pair12>>)}
    /\ bcaps \in {"None", "user", "empty"}
    /\ tleapFound \in BOOLEAN
    /\ args0 = [ionize |-> ionize, execute |-> execute, prefix |-> prefix,
                disulfide |-> disulfide, caps |-> bcaps]
    /\ bmol = Structure(<<"CYS", "CYS">>, FALSE)
    /\ pdb = None
    /\ script = <<>>
    /\ files \in Directories
    /\ molbuilt = None
    /\ engineRuns = 0 /\ rebuilds = 0
    /\ checked = {} /\ readfiles = {}
    /\ patching = "pending" /\ capped = FALSE
    /\ berr = "none"
    /\ returned = None

BNext ==
    \/ BSetup \/ BValidate \/ BConvert \/ BApplyCaps \/ BWriteScript
    \/ BExecute \/ BIonizeRebuild \/ BReturn

SpecBuild == BInit /\ [][BNext]_vars

-----------------------------------------------------------------------------
(* Properties of the remapper *)

\* the structure holds the atom with a given tag exactly once
Holds(m, tag) == Cardinality({k \in DOMAIN m : m[k].beta = tag}) = 1

RReordered == rpc \in {"reseg", "done", "CapacityError", "IndexError"}

RTerminal == rpc \in {"done", "CapacityError", "IndexError"}

\* the position ranges of the residue groups of a structure: maximal runs of
\* atoms with the same (residue id, segment id)
SameResidue(m, i, j) == m[i].resid = m[j].resid /\ m[i].segid = m[j].segid

GroupOf(m, i) ==
    {j \in DOMAIN m :
        \A k \in DOMAIN m : (k >= MinOf({i, j}) /\ k <= MaxOf({i, j})) => SameResidue(m, i, k)}

Groups(m) == {GroupOf(m, i) : i \in DOMAIN m}

\* C1: the index array handed to the reorder step is a bijection over [0, N),
\* and the reordered structure holds exactly the N input atoms, each once.
C1_IdxBijection ==
    RReordered =>
        /\ IsBijection(idx, NumAtoms(molin))
        /\ NumAtoms(mol) = NumAtoms(molin)
        /\ \A i \in DOMAIN molin :
              Cardinality({k \in DOMAIN mol : mol[k].beta = molin[i].beta}) = 1

C1_Witness ==
    /\ rpc = "reseg"
    /\ NumAtoms(molin) >= 3
    /\ \E k \in DOMAIN idx : idx[k] # k
    /\ \E i \in DOMAIN molin : HasRule(resdict, molin[i])

NoRuleApplies == \A i \in DOMAIN molin : ~HasRule(resdict, molin[i])

\* C2: when no atom has a rule, the remapper returns the input unchanged: same
\* atom order, same name, residue name, residue id, segment id and beta; no
\* segment is relabelled and it does not fail.
C2_NoOpLaw ==
    NoRuleApplies =>
        /\ rpc \notin {"CapacityError", "IndexError"}
        /\ rpc = "done" => mol = molin
        /\ RReordered => idx = [i \in DOMAIN molin |-> i]

C2_Witness ==
    /\ NoRuleApplies
    /\ rpc = "done"
    /\ NumAtoms(molin) >= 3
    /\ \E i, j \in DOMAIN molin : molin[i].resid # molin[j].resid
    /\ \E i \in DOMAIN molin : molin[i].resname = "X"

\* the rule of input atom i, and the groups all of whose atoms have rules with
\* the distinct positions 0..k-1
RuleOf(i) == CHOOSE r \in RulesFor(resdict, molin[i].resname, molin[i].name) : TRUE

FullyRuled(g) ==
    /\ \A i \in g : HasRule(resdict, molin[i])
    /\ {RuleOf(i).order : i \in g} = 0 .. (Cardinality(g) - 1)
    /\ \A i, j \in g : RuleOf(i).order = RuleOf(j).order => i = j

\* C3: a residue group whose atoms all have rules, with position indices exactly
\* 0..k-1, keeps its index range, and inside it the atoms stand in ascending
\* rule position, renamed by their rules, whatever their file order was.
C3_GroupSortedInPlace ==
    rpc \in {"reseg", "done"} =>
        \A g \in Groups(molin) :
            FullyRuled(g) =>
                \A i \in g :
                    LET k == MinOf(g) + RuleOf(i).order
                    IN  /\ mol[k].beta = molin[i].beta
                        /\ mol[k].name = RuleOf(i).replaceatom
                        /\ mol[k].resname = RuleOf(i).replaceresname

\* the atoms of the i-th run
RunAtoms(i) == {k \in DOMAIN mol : begtersIdx[i] <= k /\ k <= fintersIdx[i]}

\* C6: more than 999 runs is a capacity error that assigns no label; with at
\* most 999 runs the resegmenter does not fail, and the atoms of the i-th run
\* carry the label L<i>, the labels being pairwise distinct.
C6_CapacityAndLabels ==
    RTerminal =>
        /\ Len(begtersIdx) > MaxSegments =>
              /\ rpc = "CapacityError"
              /\ \A k \in DOMAIN mol : mol[k].segid \in {molin[i].segid : i \in DOMAIN molin}
        /\ Len(begtersIdx) <= MaxSegments =>
              /\ rpc = "done"
              /\ \A i \in 1 .. Len(begtersIdx) :
                    \A k \in RunAtoms(i) : mol[k].segid = SegLabel(i - 1)
              /\ \A i, j \in 1 .. Len(begtersIdx) : i # j => SegLabel(i - 1) # SegLabel(j - 1)

\* the position, after the reorder, of the atom that stood at position i
PosOf(i) == CHOOSE k \in DOMAIN mol : mol[k].beta = molin[i].beta

Unruled == {i \in DOMAIN molin : ~HasRule(resdict, molin[i])}

\* C11: an atom without a rule keeps its name and residue name, stays inside
\* the index range of its own residue group, and keeps its order relative to
\* every other atom without a rule.
C11_UnruledUntouched ==
    rpc \in {"reseg", "done"} =>
        /\ \A i \in Unruled :
              /\ Holds(mol, molin[i].beta)
              /\ mol[PosOf(i)].name = molin[i].name
              /\ mol[PosOf(i)].resname = molin[i].resname
              /\ MinOf(GroupOf(molin, i)) <= PosOf(i)
              /\ PosOf(i) <= MaxOf(GroupOf(molin, i))
        /\ \A i, j \in Unruled : i < j => PosOf(i) < PosOf(j)

\* the end markers at or after a position, and the run that a begin marker
\* and the first of them delimit
EndsFrom(b) == {e \in Range(fintersIdx) : e >= b}

DelimitedRun(b) == {k \in DOMAIN mol : b <= k /\ k <= MinOf(EndsFrom(b))}

DelimitedRuns == {DelimitedRun(b) : b \in {c \in Range(begtersIdx) : EndsFrom(c) # {}}}

\* C13: every run the resegmenter relabels starts at a begin marker, ends at
\* the first end marker at or after it and holds no further begin marker, and
\* an atom outside these runs keeps its segment id and residue id.
C13_RunsDelimited ==
    rpc = "done" =>
        /\ \A i \in 1 .. Len(begtersIdx) :
              /\ EndsFrom(begtersIdx[i]) # {}
              /\ fintersIdx[i] = MinOf(EndsFrom(begtersIdx[i]))
              /\ \A j \in 1 .. Len(begtersIdx) :
                    j # i => ~(begtersIdx[i] < begtersIdx[j] /\ begtersIdx[j] <= fintersIdx[i])
        /\ \A k \in DOMAIN mol :
              k \notin UNION DelimitedRuns =>
                  /\ mol[k].segid = molin[idx[k]].segid
                  /\ mol[k].resid = molin[idx[k]].resid

\* the residue instance of an atom, and the index range of the instance an
\* input atom belongs to: the maximal run of atoms of that instance around it
InstanceOf(at) == <<at.resid, at.insertion, at.segid>>

InstanceRun(i) ==
    {j \in DOMAIN molin :
        \A k \in DOMAIN molin :
            (k >= MinOf({i, j}) /\ k <= MaxOf({i, j})) =>
                InstanceOf(molin[k]) = InstanceOf(molin[i])}

\* C12: atoms are grouped by (residue id, insertion code, segment id): of two
\* consecutive residues that share a residue id and differ in segment id or
\* insertion code, no atom is moved into the index range of the other.
C12_GroupedByInstance ==
    rpc \in {"reseg", "done"} =>
        \A i, j \in DOMAIN molin :
            (/\ molin[i].resid = molin[j].resid
             /\ InstanceOf(molin[i]) # InstanceOf(molin[j])
             /\ MaxOf(InstanceRun(i)) + 1 = MinOf(InstanceRun(j)))
            => /\ PosOf(i) \notin InstanceRun(j)
               /\ PosOf(j) \notin InstanceRun(i)

-----------------------------------------------------------------------------
(* Properties of the cap applier *)

CFailed == cpc \in {"AssertionError", "IndexError"}

AtomWith(m, tag) == m[CHOOSE k \in DOMAIN m : m[k].beta = tag]

SegResids(m, seg) == {m[i].resid : i \in {j \in DOMAIN m : m[j].segid = seg}}

\* C4: a second application with the same configuration, on a structure the
\* first application succeeded on, raises no error and changes neither the
\* atom count nor any field: every configured segment is skipped with the
\* warning.
C4_CapIdempotent ==
    /\ Len(capdone) = 1 => ~CFailed
    /\ Len(capdone) >= 2 =>
          /\ capdone[2] = capdone[1]
          /\ skipped = {caps[i].seg : i \in DOMAIN caps}

\* both configured cap names occur as residues on the segment
CapsDetectedByConfig(m, cap) ==
    /\ \E i \in DOMAIN m : m[i].segid = cap.seg /\ m[i].resname = cap.ncap
    /\ \E i \in DOMAIN m : m[i].segid = cap.seg /\ m[i].resname = cap.ccap

\* the segments C5 speaks of, and what it says of their capped form
C5Pre(m, cap) ==
    LET resids == SegResids(m, cap.seg)
    IN  /\ resids # {}
        /\ ~CapsDetectedByConfig(m, cap)
        /\ Cardinality(SelName(m, cap.seg, MinOf(resids), {"H2", "HT2"})) = 1
        /\ Cardinality(SelName(m, cap.seg, MinOf(resids), {"H1", "H3", "HT1", "HT3"})) = 2
        /\ Cardinality(SelName(m, cap.seg, MaxOf(resids), {"OXT", "OT1"})) = 1

C5Post(m, out, cap) ==
    LET resids == SegResids(m, cap.seg)
        h2 == CHOOSE i \in SelName(m, cap.seg, MinOf(resids), {"H2", "HT2"}) : TRUE
        oxt == CHOOSE i \in SelName(m, cap.seg, MaxOf(resids), {"OXT", "OT1"}) : TRUE
        hs == SelName(m, cap.seg, MinOf(resids), {"H1", "H3", "HT1", "HT3"})
    IN  /\ NumAtoms(out) = NumAtoms(m) - 2
        /\ \A k \in DOMAIN out : \E i \in DOMAIN m : out[k].beta = m[i].beta
        /\ Holds(out, m[h2].beta)
        /\ AtomWith(out, m[h2].beta) =
              [m[h2] EXCEPT !.resname = cap.ncap, !.name = "C", !.resid = MinOf(resids) - 1]
        /\ Holds(out, m[oxt].beta)
        /\ AtomWith(out, m[oxt].beta) =
              [m[oxt] EXCEPT !.resname = cap.ccap, !.name = "N", !.resid = MaxOf(resids) + 1]
        /\ \A i \in hs : \A k \in DOMAIN out : out[k].beta # m[i].beta
        /\ \A i \in DOMAIN m \ (hs \cup {h2, oxt}) :
              Holds(out, m[i].beta) /\ AtomWith(out, m[i].beta) = m[i]
        /\ Cardinality(SegResids(out, cap.seg)) = Cardinality(resids) + 2

\* C5: capping an uncapped segment whose lowest residue holds one H2/HT2 and
\* two of H1/H3/HT1/HT3 and whose highest residue holds one OXT/OT1 gives N-2
\* atoms, none added: the H2 atom is the N-cap (cap name, C, min-1), the OXT
\* atom the C-cap (cap name, N, max+1), the two hydrogens are gone, every other
\* atom is unchanged, and the segment has two more residue ids.
C5_CapScenario ==
    C5Pre(capin, caps[1]) =>
        /\ Len(capdone) = 0 => ~CFailed
        /\ Len(capdone) >= 1 => C5Post(capin, capdone[1], caps[1])

\* C10: the position-swap array is a bijection over [0, N) wherever the two
\* candidates stand, so the reorder keeps every atom once, and after it the
\* N-cap atom is at the segment's first position and the C-cap atom at its last.
C10_SwapBijection ==
    cpc = "clean" =>
        /\ IsBijection(capneworder, NumAtoms(capsel.before))
        /\ NumAtoms(capmol) = NumAtoms(capsel.before)
        /\ \A i \in DOMAIN capsel.before : Holds(capmol, capsel.before[i].beta)
        /\ capmol[capsel.segmentfirst].beta = capsel.before[capsel.nterm].beta
        /\ capmol[capsel.segmentlast].beta = capsel.before[capsel.cterm].beta

-----------------------------------------------------------------------------
(* Properties of build *)

BTerminal == bpc \in {"Finalize", "Failed"}

C8_DryRun ==
    ~args0.execute =>
        /\ engineRuns = 0
        /\ rebuilds = 0
        /\ script # <<>> => bpc # "Failed"

\* C9: the files whose size build asks for, and the files it reads the built
\* structure from, are the two files the save directive names, <prefix>.crd
\* and <prefix>.prmtop; when one of these is absent or empty after the engine
\* ran, the build fails and returns no structure.
C9_ArtifactsUnderPrefix ==
    /\ checked # {} => checked \subseteq SavedFiles(script)
    /\ readfiles # {} => readfiles = SavedFiles(script)
    /\ (bpc \in {"Return", "IonizeRebuild"} /\ execute) =>
          \A f \in SavedFiles(script) : files[f] = "full"
    /\ (bpc = "Finalize" /\ args0.execute) => returned.built

\* the bond directives of the script, and whether the engine has run on the
\* script of the running invocation
BondLines == {i \in DOMAIN script : script[i][1] = "bond"}

EngineRanOnScript == engineRuns >= pass /\ pass >= 1

\* C14: when the engine has run on a script with bond directives, the structure
\* file the script loads carries the residue name CYX on both residues of every
\* bonded pair.
C14_RenamedBeforeWrite ==
    (EngineRanOnScript /\ BondLines # {}) =>
        \A i \in BondLines :
            /\ pdb.resname[script[i][2]] = "CYX"
            /\ pdb.resname[script[i][3]] = "CYX"

====
